---- MODULE Spec2Model ----
(***************************************************************************)
(* A model of MatrixUser (src/src/matrix-user.js): the Telegram login      *)
(* handshake, the contact cache and its synchronisation, and the dialog    *)
(* synchronisation.  Every async method is one action; the collaborators   *)
(* (TelegramPuppet, the app's registries) answer nondeterministically, and *)
(* the store accepts every save.  The calls a method makes are logged in   *)
(* `calls`.                                                                *)
(*                                                                         *)
(*   Spec          the login handshake of one user, across restarts        *)
(*   SpecContacts  one syncContacts call, on every cache and response      *)
(*   SpecDialogs   one syncDialogs call, on every response                 *)
(*   SpecSearch    one searchContacts call, on every cache and option      *)
(*   SpecSearchTelegram  one searchTelegram call, on every response        *)
(*   SpecRehydrate the contact cache of one user, across restarts          *)
(***************************************************************************)
EXTENDS Integers, Sequences, FiniteSets, TLC

\* ------------------------------------------------------------------ bounds
MaxContacts == 2
MaxDialogs == 2
MaxCache == 2
MaxResults == 2

\* ------------------------------------------------------- program constants
DefaultMinSimilarity == 45

\* ------------------------------------------------------------- value sets
None == "undefined"
Undefined == [undefined |-> TRUE]

Phones == {"+100", "+200"}
Hashes == {"h1", "h2"}
TelegramIDs == {"tg1"}
ContactIDs == {1, 2}

MatrixID == "@user:hs"

\* A call to a collaborator: its name and a numeric argument (0: none).
Call(fn, arg) == [fn |-> fn, arg |-> arg]

\* The sequences over S of length at most n.
SeqsUpTo(S, n) == UNION {[1..len -> S] : len \in 0..n}

\* ------------------------------------------------------------------ state
VARIABLES
    userID,          \* this.userID
    phoneNumber,     \* this.phoneNumber
    phoneCodeHash,   \* this.phoneCodeHash
    puppetData,      \* this.puppetData
    contacts,        \* this.contacts
    telegramPuppet,  \* this._telegramPuppet
    persisted,       \* the entry the store holds for this user
    timer,           \* the task the contactIDs setter schedules
    op,              \* the last method that ran
    arg,             \* its input (what the collaborators answered)
    result,          \* "ok" or the error it threw
    ret,             \* the value it returned
    calls            \* the collaborator calls it made, in order

vars == <<userID, phoneNumber, phoneCodeHash, puppetData, contacts,
          telegramPuppet, persisted, timer, op, arg, result, ret, calls>>

user == <<userID, phoneNumber, phoneCodeHash, puppetData, contacts, telegramPuppet>>

\* ----------------------------------------------------------- collaborators
\* TelegramPuppet.fromSubentry(app, user, data): the session of a snapshot.
FromSubentry(data) ==
    [userID |-> IF data = Undefined THEN None ELSE data.userID]

\* TelegramPuppet.toSubentry(): the snapshot of a session.
ToSubentry(puppet) == [userID |-> puppet.userID]

\* The session after the remote side accepted a sign-in or a password.
SignInComplete(puppet, id) == [puppet EXCEPT !.userID = id]

\* app.getTelegramUser(id): the local Contact of a remote identity.
GetTelegramUser(id) == [id |-> id]

\* ------------------------------------------------------------- MatrixUser
\* JavaScript falsiness of a string-or-undefined value.
Falsy(v) == v = None \/ v = ""

\* get telegramPuppet: the session held, or one built from puppetData || {}.
TelegramPuppetGet(held, data) ==
    IF held = Undefined THEN FromSubentry(data) ELSE held

GetterCallsEveryAccess(held) == <<Call("fromSubentry", 0)>>

\* The calls the getter makes.
GetterCalls(held) ==
    IF held = Undefined THEN <<Call("fromSubentry", 0)>> ELSE <<>>

\* get contactIDs
ContactIDsOf(cs) == [i \in DOMAIN cs |-> cs[i].id]

\* toEntry's refresh of puppetData from the session held.
SnapshotOf(held, data) ==
    IF held # Undefined THEN ToSubentry(held) ELSE data

\* toEntry's result.
ToEntry(uid, phone, hash, cs, data) ==
    [type |-> "matrix",
     id   |-> uid,
     data |-> [phoneNumber   |-> phone,
               phoneCodeHash |-> hash,
               contactIDs    |-> ContactIDsOf(cs),
               puppet        |-> data]]

SaveSkipped(phone, hash, cs, held, data) ==
    UNCHANGED <<puppetData, persisted>>

\* save(): app.putUser(this) stores toEntry(), which refreshes puppetData.
Save(phone, hash, cs, held, data) ==
    /\ puppetData' = SnapshotOf(held, data)
    /\ persisted' = ToEntry(userID, phone, hash, cs, SnapshotOf(held, data))

Finish(name, input, res, value, made) ==
    /\ op' = name
    /\ arg' = input
    /\ result' = res
    /\ ret' = value
    /\ calls' = made

\* constructor
Init ==
    /\ userID = MatrixID
    /\ phoneNumber = None
    /\ phoneCodeHash = None
    /\ puppetData = Undefined
    /\ contacts = <<>>
    /\ telegramPuppet = Undefined
    /\ persisted = Undefined
    /\ timer = [phase |-> "idle", list |-> <<>>]
    /\ op = "constructor"
    /\ arg = Undefined
    /\ result = "ok"
    /\ ret = None
    /\ calls = <<>>

AlreadyLoggedInInverted(held) == held # Undefined /\ Falsy(held.userID)

\* sendTelegramCode's guard: a session is held and reports an identity.
AlreadyLoggedIn(held) == held # Undefined /\ ~Falsy(held.userID)

SendTelegramCodeStoresFirst(phone, check, sent) ==
    LET input == [phoneNumber |-> phone]
        puppet == TelegramPuppetGet(telegramPuppet, puppetData)
        built == GetterCalls(telegramPuppet)
    IN  IF AlreadyLoggedIn(telegramPuppet)
        THEN /\ Finish("sendTelegramCode", input, "AlreadyAuthenticated", None, <<>>)
             /\ UNCHANGED <<user, persisted, timer>>
        ELSE IF check \in {"unregistered", "invalid"}
        THEN /\ telegramPuppet' = puppet
             /\ Finish("sendTelegramCode", input,
                       IF check = "invalid" THEN "InvalidPhoneNumber"
                       ELSE "UnregisteredAccount", None,
                       built \o <<Call("checkPhone", 0)>>)
             /\ UNCHANGED <<userID, phoneNumber, phoneCodeHash, puppetData, contacts,
                            persisted, timer>>
        ELSE IF sent = "error"
        THEN /\ telegramPuppet' = puppet
             /\ phoneNumber' = phone
             /\ Finish("sendTelegramCode", input, "RemoteProtocolError", None,
                       built \o <<Call("checkPhone", 0), Call("sendCode", 0)>>)
             /\ UNCHANGED <<userID, phoneCodeHash, puppetData, contacts,
                            persisted, timer>>
        ELSE /\ telegramPuppet' = puppet
             /\ phoneNumber' = phone
             /\ phoneCodeHash' = sent
             /\ Save(phone, sent, contacts, puppet, puppetData)
             /\ Finish("sendTelegramCode", input, "ok", sent,
                       built \o <<Call("checkPhone", 0), Call("sendCode", 0),
                                  Call("save", 0)>>)
             /\ UNCHANGED <<userID, contacts, timer>>

\* sendTelegramCode(phoneNumber): `check` is checkPhone's answer, `sent` the
\* hash sendCode answers with, or "error" when it fails.
SendTelegramCode(phone, check, sent) ==
    LET input == [phoneNumber |-> phone]
        puppet == TelegramPuppetGet(telegramPuppet, puppetData)
        built == GetterCalls(telegramPuppet)
    IN  IF AlreadyLoggedIn(telegramPuppet)
        THEN /\ Finish("sendTelegramCode", input, "AlreadyAuthenticated", None, <<>>)
             /\ UNCHANGED <<user, persisted, timer>>
        ELSE IF check = "unregistered"
        THEN /\ telegramPuppet' = puppet
             /\ Finish("sendTelegramCode", input, "UnregisteredAccount", None,
                       built \o <<Call("checkPhone", 0)>>)
             /\ UNCHANGED <<userID, phoneNumber, phoneCodeHash, puppetData, contacts,
                            persisted, timer>>
        ELSE IF check = "invalid"
        THEN /\ telegramPuppet' = puppet
             /\ Finish("sendTelegramCode", input, "InvalidPhoneNumber", None,
                       built \o <<Call("checkPhone", 0)>>)
             /\ UNCHANGED <<userID, phoneNumber, phoneCodeHash, puppetData, contacts,
                            persisted, timer>>
        ELSE IF sent = "error"
        THEN /\ telegramPuppet' = puppet
             /\ Finish("sendTelegramCode", input, "RemoteProtocolError", None,
                       built \o <<Call("checkPhone", 0), Call("sendCode", 0)>>)
             /\ UNCHANGED <<userID, phoneNumber, phoneCodeHash, puppetData, contacts,
                            persisted, timer>>
        ELSE /\ telegramPuppet' = puppet
             /\ phoneNumber' = phone
             /\ phoneCodeHash' = sent
             /\ Save(phone, sent, contacts, puppet, puppetData)
             /\ Finish("sendTelegramCode", input, "ok", sent,
                       built \o <<Call("checkPhone", 0), Call("sendCode", 0),
                                  Call("save", 0)>>)
             /\ UNCHANGED <<userID, contacts, timer>>

SignInPreconditionPhoneOnly(phone, hash) ==
    IF Falsy(phone) THEN "PhoneNotSet" ELSE "ok"

\* signInToTelegram's two guards, in the order the code tests them.
SignInPrecondition(phone, hash) ==
    IF Falsy(phone) THEN "PhoneNotSet"
    ELSE IF Falsy(hash) THEN "CodeNotRequested"
    ELSE "ok"

SignedInHashKept == phoneCodeHash

\* this.phoneCodeHash = undefined, once signIn has returned.
SignedInHash == None

\* signInToTelegram(phoneCode): `outcome` is what the session's signIn does.
SignInToTelegram(outcome, id) ==
    LET puppet == TelegramPuppetGet(telegramPuppet, puppetData)
        built == GetterCalls(telegramPuppet)
        signed == IF outcome = "authorized" THEN SignInComplete(puppet, id) ELSE puppet
        guard == SignInPrecondition(phoneNumber, phoneCodeHash)
    IN  IF guard # "ok"
        THEN /\ Finish("signInToTelegram", Undefined, guard, None, <<>>)
             /\ UNCHANGED <<user, persisted, timer>>
        ELSE IF outcome = "error"
        THEN /\ telegramPuppet' = puppet
             /\ Finish("signInToTelegram", Undefined, "RemoteProtocolError", None,
                       built \o <<Call("signIn", 0)>>)
             /\ UNCHANGED <<userID, phoneNumber, phoneCodeHash, puppetData, contacts,
                            persisted, timer>>
        ELSE /\ telegramPuppet' = signed
             /\ phoneCodeHash' = SignedInHash
             /\ Save(phoneNumber, SignedInHash, contacts, signed, puppetData)
             /\ Finish("signInToTelegram", Undefined, "ok", outcome,
                       built \o <<Call("signIn", 0), Call("save", 0)>>)
             /\ UNCHANGED <<userID, phoneNumber, contacts, timer>>

\* checkPassword(password_hash): `outcome` is what the session's checkPassword does.
CheckPassword(outcome, id) ==
    LET puppet == TelegramPuppetGet(telegramPuppet, puppetData)
        built == GetterCalls(telegramPuppet)
        signed == SignInComplete(puppet, id)
    IN  IF outcome = "error"
        THEN /\ telegramPuppet' = puppet
             /\ Finish("checkPassword", Undefined, "RemoteProtocolError", None,
                       built \o <<Call("checkPassword", 0)>>)
             /\ UNCHANGED <<userID, phoneNumber, phoneCodeHash, puppetData, contacts,
                            persisted, timer>>
        ELSE /\ telegramPuppet' = signed
             /\ Save(phoneNumber, phoneCodeHash, contacts, signed, puppetData)
             /\ Finish("checkPassword", Undefined, "ok", outcome,
                       built \o <<Call("checkPassword", 0), Call("save", 0)>>)
             /\ UNCHANGED <<userID, phoneNumber, phoneCodeHash, contacts, timer>>

LogOutSavesFirst ==
    /\ telegramPuppet' = Undefined
    /\ Save(phoneNumber, phoneCodeHash, contacts,
            TelegramPuppetGet(telegramPuppet, puppetData), puppetData)
    /\ Finish("logOutFromTelegram", Undefined, "ok", "true",
              GetterCalls(telegramPuppet) \o <<Call("logOut", 0), Call("save", 0)>>)
    /\ UNCHANGED <<userID, phoneNumber, phoneCodeHash, contacts, timer>>

\* logOutFromTelegram(): the session's logOut is called and not awaited.
LogOutFromTelegram ==
    /\ telegramPuppet' = Undefined
    /\ Save(phoneNumber, phoneCodeHash, contacts, Undefined, Undefined)
    /\ Finish("logOutFromTelegram", Undefined, "ok", "true",
              GetterCalls(telegramPuppet) \o <<Call("logOut", 0), Call("save", 0)>>)
    /\ UNCHANGED <<userID, phoneNumber, phoneCodeHash, contacts, timer>>

\* md5(ids.join(",")): a digest that tells any two id lists apart.
RECURSIVE Md5Join(_)
Md5Join(ids) ==
    IF ids = <<>> THEN 0
    ELSE Md5Join(SubSeq(ids, 1, Len(ids) - 1)) * (Cardinality(ContactIDs) + 1)
         + ids[Len(ids)]

\* What contacts.getContacts may answer with: each returned user carries how
\* the registry treats it (resolved and updated, or one of the two fails).
RemoteUsers == [id : ContactIDs, outcome : {"ok", "lookupError", "updateError"}]

ContactResponses ==
    {[kind |-> "contacts.contactsNotModified", users |-> <<>>],
     [kind |-> "error", users |-> <<>>]}
    \cup {[kind |-> "contacts.contacts", users |-> us] :
            us \in SeqsUpTo(RemoteUsers, MaxContacts)}

RECURSIVE SyncContactsLoopPrepends(_, _, _, _)
SyncContactsLoopPrepends(users, i, list, made) ==
    IF i > Len(users)
    THEN [result |-> "ok", users |-> list, calls |-> made]
    ELSE LET contact == users[i]
             looked == Append(made, Call("getTelegramUser", contact.id))
             updated == Append(looked, Call("updateInfo", contact.id))
         IN  IF contact.outcome = "lookupError"
             THEN [result |-> "ContactError", users |-> list, calls |-> looked]
             ELSE IF contact.outcome = "updateError"
             THEN [result |-> "ContactError", users |-> list, calls |-> updated]
             ELSE SyncContactsLoopPrepends(users, i + 1,
                                           <<GetTelegramUser(contact.id)>> \o list, updated)

RECURSIVE SyncContactsLoopSwallows(_, _, _, _)
SyncContactsLoopSwallows(users, i, list, made) ==
    IF i > Len(users)
    THEN [result |-> "ok", users |-> list, calls |-> made]
    ELSE LET contact == users[i]
             looked == Append(made, Call("getTelegramUser", contact.id))
             updated == Append(looked, Call("updateInfo", contact.id))
         IN  IF contact.outcome = "lookupError"
             THEN SyncContactsLoopSwallows(users, i + 1, list, looked)
             ELSE IF contact.outcome = "updateError"
             THEN SyncContactsLoopSwallows(users, i + 1, list, updated)
             ELSE SyncContactsLoopSwallows(users, i + 1,
                                           Append(list, GetTelegramUser(contact.id)), updated)

\* The for loop of syncContacts from index i on: the list built so far and
\* the calls made; it stops at the first contact that fails.
RECURSIVE SyncContactsLoop(_, _, _, _)
SyncContactsLoop(users, i, list, made) ==
    IF i > Len(users)
    THEN [result |-> "ok", users |-> list, calls |-> made]
    ELSE LET contact == users[i]
             looked == Append(made, Call("getTelegramUser", contact.id))
             updated == Append(looked, Call("updateInfo", contact.id))
         IN  IF contact.outcome = "lookupError"
             THEN [result |-> "ContactError", users |-> list, calls |-> looked]
             ELSE IF contact.outcome = "updateError"
             THEN [result |-> "ContactError", users |-> list, calls |-> updated]
             ELSE SyncContactsLoop(users, i + 1,
                                   Append(list, GetTelegramUser(contact.id)), updated)

\* syncContacts()
SyncContacts(response) ==
    LET puppet == TelegramPuppetGet(telegramPuppet, puppetData)
        fetched == GetterCalls(telegramPuppet)
                   \o <<Call("contacts.getContacts", Md5Join(ContactIDsOf(contacts)))>>
        loop == SyncContactsLoop(response.users, 1, <<>>, fetched)
    IN  /\ telegramPuppet' = puppet
        /\ IF response.kind = "error"
           THEN /\ Finish("syncContacts", response, "RemoteProtocolError", None, fetched)
                /\ UNCHANGED <<userID, phoneNumber, phoneCodeHash, puppetData, contacts,
                               persisted, timer>>
           ELSE IF response.kind = "contacts.contactsNotModified"
           THEN /\ Finish("syncContacts", response, "ok", "false", fetched)
                /\ UNCHANGED <<userID, phoneNumber, phoneCodeHash, puppetData, contacts,
                               persisted, timer>>
           ELSE IF loop.result # "ok"
           THEN /\ Finish("syncContacts", response, loop.result, None, loop.calls)
                /\ UNCHANGED <<userID, phoneNumber, phoneCodeHash, puppetData, contacts,
                               persisted, timer>>
           ELSE /\ contacts' = loop.users
                /\ Save(phoneNumber, phoneCodeHash, loop.users, puppet, puppetData)
                /\ Finish("syncContacts", response, "ok", "true",
                          Append(loop.calls, Call("save", 0)))
                /\ UNCHANGED <<userID, phoneNumber, phoneCodeHash, timer>>

\* static fromEntry(app, entry): the process restarts and the user is rebuilt
\* from the stored entry; the contactIDs setter schedules its task.
FromEntry ==
    /\ persisted # Undefined
    /\ persisted.type = "matrix"
    /\ userID' = persisted.id
    /\ phoneNumber' = persisted.data.phoneNumber
    /\ phoneCodeHash' = persisted.data.phoneCodeHash
    /\ contacts' = <<>>
    /\ timer' = [phase |-> "scheduled", list |-> persisted.data.contactIDs]
    /\ puppetData' = persisted.data.puppet
    /\ telegramPuppet' = IF persisted.data.puppet # Undefined
                         THEN FromSubentry(persisted.data.puppet)
                         ELSE Undefined
    /\ Finish("fromEntry", persisted, "ok", None,
              IF persisted.data.puppet # Undefined
              THEN <<Call("fromSubentry", 0)>> ELSE <<>>)
    /\ UNCHANGED persisted

\* set contactIDs: the setTimeout callback starts and awaits the lookups.
ContactIDsTimerFires ==
    /\ timer.phase = "scheduled"
    /\ timer' = [timer EXCEPT !.phase = "resolving"]
    /\ Finish("timer", Undefined, "ok", None, <<>>)
    /\ UNCHANGED <<user, persisted>>

\* set contactIDs: the awaited lookups settle and the cache is assigned.
ContactIDsResolved(ok) ==
    /\ timer.phase = "resolving"
    /\ timer' = [phase |-> "idle", list |-> <<>>]
    /\ contacts' = IF ok THEN [i \in DOMAIN timer.list |-> GetTelegramUser(timer.list[i])]
                   ELSE contacts
    /\ Finish("timer", Undefined, IF ok THEN "ok" ELSE "ContactError", None,
              [i \in DOMAIN timer.list |-> Call("getTelegramUser", timer.list[i])])
    /\ UNCHANGED <<userID, phoneNumber, phoneCodeHash, puppetData, telegramPuppet,
                   persisted>>

\* The login handshake of one user, across restarts.
Next ==
    \/ \E phone \in Phones, check \in {"registered", "unregistered", "invalid"},
          sent \in Hashes \cup {"error"} :
          SendTelegramCode(phone, check, sent)
    \/ \E outcome \in {"authorized", "need-password", "error"}, id \in TelegramIDs :
          SignInToTelegram(outcome, id)
    \/ \E outcome \in {"authorized", "error"}, id \in TelegramIDs :
          CheckPassword(outcome, id)
    \/ LogOutFromTelegram
    \/ FromEntry
    \/ ContactIDsTimerFires
    \/ \E ok \in BOOLEAN : ContactIDsResolved(ok)

Spec == Init /\ [][Next]_vars

\* What messages.getDialogs may answer with: each chat carries how the portal
\* registry treats it (`update`: the lookup fails, the update fails, or the
\* update reports a change or none) and whether creating its room fails.
ChatAnswers ==
    [kind : {"chat", "chatForbidden"},
     deactivated : BOOLEAN,
     update : {"lookupError", "updateError", "changed", "unchanged"},
     room : {"ok", "error"}]

\* The remote side lists each conversation once: the i-th has id i.
RemoteChats(answers) ==
    [i \in DOMAIN answers |->
        [kind |-> answers[i].kind, id |-> i, deactivated |-> answers[i].deactivated,
         update |-> answers[i].update, room |-> answers[i].room]]

DialogResponses ==
    {[kind |-> "error", chats |-> <<>>]}
    \cup {[kind |-> "messages.dialogs", chats |-> RemoteChats(answers)] :
            answers \in SeqsUpTo(ChatAnswers, MaxDialogs)}

SkippedForbiddenOnly(dialog) == dialog.kind = "chatForbidden"

\* The test that makes the loop of syncDialogs skip a conversation.
Skipped(dialog) == dialog.kind = "chatForbidden" \/ dialog.deactivated

RoomErrorThrown(dialog) == dialog.room = "error"

\* Whether a failure of createMatrixRoom leaves the loop: the try/catch logs it.
RoomErrorEscapes(dialog) == FALSE

\* The calls of the room-creation step of one conversation.
CreateRoomCalls(dialog) ==
    IF dialog.room = "error"
    THEN <<Call("createMatrixRoom", dialog.id), Call("console.error", dialog.id),
           Call("console.error", dialog.id)>>
    ELSE <<Call("createMatrixRoom", dialog.id)>>

RECURSIVE SyncDialogsLoopSwallows(_, _, _, _, _)
SyncDialogsLoopSwallows(chats, i, createRooms, changed, made) ==
    IF i > Len(chats)
    THEN [result |-> "ok", changed |-> changed, calls |-> made]
    ELSE LET dialog == chats[i]
             looked == Append(made, Call("getPortalByPeer", dialog.id))
             updated == Append(looked, Call("updateInfo", dialog.id))
             flag == changed \/ dialog.update = "changed"
         IN  IF Skipped(dialog)
             THEN SyncDialogsLoopSwallows(chats, i + 1, createRooms, changed, made)
             ELSE IF dialog.update = "lookupError"
             THEN SyncDialogsLoopSwallows(chats, i + 1, createRooms, changed, looked)
             ELSE IF dialog.update = "updateError"
             THEN SyncDialogsLoopSwallows(chats, i + 1, createRooms, changed, updated)
             ELSE IF ~createRooms
             THEN SyncDialogsLoopSwallows(chats, i + 1, createRooms, flag, updated)
             ELSE IF dialog.room = "error" /\ RoomErrorEscapes(dialog)
             THEN [result |-> "RoomError", changed |-> flag,
                   calls |-> Append(updated, Call("createMatrixRoom", dialog.id))]
             ELSE SyncDialogsLoopSwallows(chats, i + 1, createRooms, flag,
                                          updated \o CreateRoomCalls(dialog))

\* The for loop of syncDialogs from index i on: the flag so far and the calls
\* made; it stops at the first lookup or update that fails.
RECURSIVE SyncDialogsLoop(_, _, _, _, _)
SyncDialogsLoop(chats, i, createRooms, changed, made) ==
    IF i > Len(chats)
    THEN [result |-> "ok", changed |-> changed, calls |-> made]
    ELSE LET dialog == chats[i]
             looked == Append(made, Call("getPortalByPeer", dialog.id))
             updated == Append(looked, Call("updateInfo", dialog.id))
             flag == changed \/ dialog.update = "changed"
         IN  IF Skipped(dialog)
             THEN SyncDialogsLoop(chats, i + 1, createRooms, changed, made)
             ELSE IF dialog.update = "lookupError"
             THEN [result |-> "PortalError", changed |-> changed, calls |-> looked]
             ELSE IF dialog.update = "updateError"
             THEN [result |-> "PortalError", changed |-> changed, calls |-> updated]
             ELSE IF ~createRooms
             THEN SyncDialogsLoop(chats, i + 1, createRooms, flag, updated)
             ELSE IF dialog.room = "error" /\ RoomErrorEscapes(dialog)
             THEN [result |-> "RoomError", changed |-> flag,
                   calls |-> Append(updated, Call("createMatrixRoom", dialog.id))]
             ELSE SyncDialogsLoop(chats, i + 1, createRooms, flag,
                                  updated \o CreateRoomCalls(dialog))

BoolString(b) == IF b THEN "true" ELSE "false"

\* syncDialogs({ createRooms })
SyncDialogs(input) ==
    LET puppet == TelegramPuppetGet(telegramPuppet, puppetData)
        fetched == GetterCalls(telegramPuppet) \o <<Call("messages.getDialogs", 0)>>
        loop == SyncDialogsLoop(input.response.chats, 1, input.createRooms, FALSE, fetched)
    IN  /\ telegramPuppet' = puppet
        /\ IF input.response.kind = "error"
           THEN Finish("syncDialogs", input, "RemoteProtocolError", None, fetched)
           ELSE IF loop.result # "ok"
           THEN Finish("syncDialogs", input, loop.result, None, loop.calls)
           ELSE Finish("syncDialogs", input, "ok", BoolString(loop.changed), loop.calls)
        /\ UNCHANGED <<userID, phoneNumber, phoneCodeHash, puppetData, contacts,
                       persisted, timer>>

\* ------------------------------------------------- single-call specifications
\* The sessions a user may hold when a method is called: none, one that has
\* not signed in, one that has.
Sessions ==
    {Undefined, FromSubentry(Undefined)}
    \cup {SignInComplete(FromSubentry(Undefined), id) : id \in TelegramIDs}

ContactLists == SeqsUpTo({GetTelegramUser(id) : id \in ContactIDs}, MaxContacts)

\* A user whose state has been saved, about to be called with `input`.
Called(cs, session, input) ==
    /\ userID = MatrixID
    /\ phoneNumber = None
    /\ phoneCodeHash = None
    /\ contacts = cs
    /\ telegramPuppet = session
    /\ puppetData = SnapshotOf(session, Undefined)
    /\ persisted = ToEntry(MatrixID, None, None, cs, SnapshotOf(session, Undefined))
    /\ timer = [phase |-> "idle", list |-> <<>>]
    /\ op = "call"
    /\ arg = input
    /\ result = "ok"
    /\ ret = None
    /\ calls = <<>>

\* One syncContacts call, on every cache and session, with every response.
InitContacts ==
    \E cs \in ContactLists, session \in Sessions, response \in ContactResponses :
        Called(cs, session, response)

NextContacts == op = "call" /\ SyncContacts(arg)

SpecContacts == InitContacts /\ [][NextContacts]_vars

\* One syncDialogs call, on every session, with every response.
InitDialogs ==
    \E session \in Sessions, response \in DialogResponses, createRooms \in BOOLEAN :
        Called(<<>>, session, [response |-> response, createRooms |-> createRooms])

NextDialogs == op = "call" /\ SyncDialogs(arg)

SpecDialogs == InitDialogs /\ [][NextDialogs]_vars

\* ---------------------------------------------------------- searchContacts
\* strSim.compareTwoStrings(query, field), in hundredths, for the fields of a
\* cached contact: a field is absent, or present with its score for the query.
Scores == {30, 60}

FieldAnswers ==
    {[present |-> FALSE, score |-> 0]} \cup {[present |-> TRUE, score |-> s] : s \in Scores}

ProfileAnswers ==
    [name : FieldAnswers, username : FieldAnswers, phoneNumber : FieldAnswers]

\* The cache searched: the i-th contact has id i.
CachedProfiles(answers) ==
    [i \in DOMAIN answers |->
        [id |-> i, name |-> answers[i].name, username |-> answers[i].username,
         phoneNumber |-> answers[i].phoneNumber]]

\* The options a caller passes; minSimilarity defaults to 0.45.
MinSimilarities == {0, DefaultMinSimilarity, 60}

SearchInputs ==
    [cache : {CachedProfiles(answers) : answers \in SeqsUpTo(ProfileAnswers, MaxCache)},
     maxResults : 0..MaxResults,
     minSimilarity : MinSimilarities]

\* A score is computed only for a field that is present; it starts at 0.
FieldSimilarity(field) == IF field.present THEN field.score ELSE 0

Max2(a, b) == IF a >= b THEN a ELSE b

\* Math.max(displaynameSimilarity, usernameSimilarity, numberSimilarity)
Similarity(contact) ==
    Max2(FieldSimilarity(contact.name),
         Max2(FieldSimilarity(contact.username), FieldSimilarity(contact.phoneNumber)))

QualifiesStrictly(similarity, minSimilarity) == similarity > minSimilarity

\* similarity >= minSimilarity
Qualifies(similarity, minSimilarity) == similarity >= minSimilarity

\* The loop of searchContacts from index i on: a result per qualifying contact;
\* match is the similarity in tenths of a percent.
RECURSIVE SearchLoop(_, _, _, _)
SearchLoop(cache, i, minSimilarity, results) ==
    IF i > Len(cache) THEN results
    ELSE LET similarity == Similarity(cache[i])
         IN  SearchLoop(cache, i + 1, minSimilarity,
                 IF Qualifies(similarity, minSimilarity)
                 THEN Append(results, [similarity |-> similarity,
                                       match |-> similarity * 10,
                                       contact |-> cache[i]])
                 ELSE results)

\* One result put into a list sorted by (a, b) => b.similarity - a.similarity,
\* after the results it does not precede.
RECURSIVE Insert(_, _)
Insert(sorted, r) ==
    IF sorted = <<>> THEN <<r>>
    ELSE IF sorted[1].similarity - r.similarity < 0
    THEN <<r>> \o sorted
    ELSE <<sorted[1]>> \o Insert(Tail(sorted), r)

\* results.sort(...): a stable sort, highest similarity first.
RECURSIVE SortBySimilarity(_)
SortBySimilarity(results) ==
    IF results = <<>> THEN <<>>
    ELSE Insert(SortBySimilarity(SubSeq(results, 1, Len(results) - 1)),
                results[Len(results)])

SliceOneMore(list, maxResults) ==
    SubSeq(list, 1, IF maxResults + 1 < Len(list) THEN maxResults + 1 ELSE Len(list))

\* .slice(0, maxResults)
Slice(list, maxResults) ==
    SubSeq(list, 1, IF maxResults < Len(list) THEN maxResults ELSE Len(list))

\* searchContacts(query, { maxResults, minSimilarity })
SearchContacts(input) ==
    /\ Finish("searchContacts", input, "ok",
              Slice(SortBySimilarity(SearchLoop(contacts, 1, input.minSimilarity, <<>>)),
                    input.maxResults),
              <<>>)
    /\ UNCHANGED <<user, persisted, timer>>

\* One searchContacts call, on every cache, with every option.
InitSearch ==
    \E input \in SearchInputs : Called(input.cache, Undefined, input)

NextSearch == op = "call" /\ SearchContacts(arg)

SpecSearch == InitSearch /\ [][NextSearch]_vars

\* ---------------------------------------------------------- searchTelegram
\* What contacts.search may answer with: each found user carries how the
\* registry treats it, and whether the refresh updateInfo starts for it has
\* run to its end by the time searchTelegram returns (the promise updateInfo
\* returns is dropped, so either may be the case).
FoundUsers ==
    [id : ContactIDs, outcome : {"ok", "lookupError", "updateError"}, settled : BOOLEAN]

SearchResponses ==
    {[kind |-> "error", users |-> <<>>]}
    \cup {[kind |-> "contacts.found", users |-> us] :
            us \in SeqsUpTo(FoundUsers, MaxContacts)}

TelegramSearches == [response : SearchResponses, maxResults : 1..MaxResults]

\* The for loop of searchTelegram from index i on: the users pushed, the
\* positions whose refresh is still running, and the calls made; only a
\* lookup that fails stops it.
RECURSIVE SearchTelegramLoop(_, _, _, _, _)
SearchTelegramLoop(users, i, list, pending, made) ==
    IF i > Len(users)
    THEN [result |-> "ok", users |-> list, pending |-> pending, calls |-> made]
    ELSE LET found == users[i]
             looked == Append(made, Call("getTelegramUser", found.id))
             updated == Append(looked, Call("updateInfo", found.id))
         IN  IF found.outcome = "lookupError"
             THEN [result |-> "ContactError", users |-> list, pending |-> pending,
                   calls |-> looked]
             ELSE SearchTelegramLoop(users, i + 1,
                                     Append(list, GetTelegramUser(found.id)),
                                     IF found.settled THEN pending ELSE pending \cup {i},
                                     updated)

\* searchTelegram(query, { maxResults })
SearchTelegram(input) ==
    LET puppet == TelegramPuppetGet(telegramPuppet, puppetData)
        fetched == GetterCalls(telegramPuppet)
                   \o <<Call("contacts.search", input.maxResults)>>
        loop == SearchTelegramLoop(input.response.users, 1, <<>>, {}, fetched)
    IN  /\ telegramPuppet' = puppet
        /\ IF input.response.kind = "error"
           THEN Finish("searchTelegram", input, "RemoteProtocolError", None, fetched)
           ELSE IF loop.result # "ok"
           THEN Finish("searchTelegram", input, loop.result, None, loop.calls)
           ELSE Finish("searchTelegram", input, "ok",
                       [users |-> loop.users, pending |-> loop.pending], loop.calls)
        /\ UNCHANGED <<userID, phoneNumber, phoneCodeHash, puppetData, contacts,
                       persisted, timer>>

\* One searchTelegram call, on every session, with every response.
InitSearchTelegram ==
    \E session \in Sessions, input \in TelegramSearches : Called(<<>>, session, input)

NextSearchTelegram == op = "call" /\ SearchTelegram(arg)

SpecSearchTelegram == InitSearchTelegram /\ [][NextSearchTelegram]_vars

\* ------------------------------------------------ the cache across restarts
\* What contacts.getContacts answers with when the registry fails on nothing.
ResolvingResponses ==
    {response \in ContactResponses :
        /\ response.kind # "error"
        /\ \A i \in DOMAIN response.users : response.users[i].outcome = "ok"}

\* One user whose contacts are synchronised and saved, whose process restarts
\* (fromEntry, then the task of the contactIDs setter), and who logs in and out.
NextRehydrate ==
    \/ \E response \in ResolvingResponses : SyncContacts(response)
    \/ FromEntry
    \/ ContactIDsTimerFires
    \/ \E ok \in BOOLEAN : ContactIDsResolved(ok)
    \/ \E sent \in {"h1"} : SendTelegramCode("+100", "registered", sent)
    \/ \E id \in TelegramIDs : SignInToTelegram("need-password", id)
    \/ \E id \in TelegramIDs : CheckPassword("authorized", id)
    \/ LogOutFromTelegram

SpecRehydrate == Init /\ [][NextRehydrate]_vars

\* ------------------------------------------------------------------ claims
\* The session is held and reports an identity.
Authenticated == telegramPuppet # Undefined /\ telegramPuppet.userID \in TelegramIDs

Makes(made, fn) == \E i \in DOMAIN made : made[i].fn = fn

CountOf(made, fn) == Cardinality({i \in DOMAIN made : made[i].fn = fn})

\* What a save leaves in the store: the entry of the user as it now is, with
\* the snapshot of the session it now holds.
SavedNow ==
    /\ Makes(calls', "save")
    /\ puppetData' = SnapshotOf(telegramPuppet', puppetData')
    /\ persisted' = ToEntry(userID', phoneNumber', phoneCodeHash', contacts', puppetData')

NothingSaved == ~Makes(calls', "save") /\ persisted' = persisted /\ puppetData' = puppetData

\* C1: while the session is held and reports an identity, sendTelegramCode
\* with any phone number fails with AlreadyAuthenticated, calls neither the
\* session (no checkPhone, no sendCode) nor the store, and changes nothing.
C1_AlreadyAuthenticatedNoCall ==
    [][(Authenticated /\ op' = "sendTelegramCode")
        => /\ result' = "AlreadyAuthenticated"
           /\ calls' = <<>>
           /\ UNCHANGED <<user, persisted>>]_vars

C1_Witness ==
    /\ Authenticated
    /\ op = "sendTelegramCode"
    /\ result = "AlreadyAuthenticated"

\* C2: while phoneNumber or phoneCodeHash is absent, signInToTelegram fails
\* with PhoneNotSet (no phone) or CodeNotRequested (a phone and no hash),
\* without calling the session's signIn, building a session or saving.
C2_SignInNeedsHandshake ==
    [][(op' = "signInToTelegram" /\ (phoneNumber = None \/ phoneCodeHash = None))
        => /\ result' = IF phoneNumber = None THEN "PhoneNotSet" ELSE "CodeNotRequested"
           /\ calls' = <<>>
           /\ telegramPuppet' = telegramPuppet
           /\ NothingSaved]_vars

\* A fresh user, before any sendTelegramCode.
C2_Witness ==
    /\ op = "signInToTelegram"
    /\ result = "PhoneNotSet"
    /\ telegramPuppet = Undefined
    /\ persisted = Undefined

\* C3 as stated: whenever signInToTelegram passes its guards, the hash is
\* absent afterwards and the user has been saved, whatever signIn did.
C3_ClearedOnEveryOutcome ==
    [][(op' = "signInToTelegram" /\ phoneNumber # None /\ phoneCodeHash # None)
        => phoneCodeHash' = None /\ Makes(calls', "save")]_vars

\* C3 amended: whenever signInToTelegram passes its guards it calls signIn;
\* when signIn returns (signed in, or password required) the hash is absent
\* afterwards and the user has been saved; when signIn fails the error
\* propagates, the hash is kept and nothing is saved.
C3_ClearedWhenSignInReturns ==
    [][(op' = "signInToTelegram" /\ phoneNumber # None /\ phoneCodeHash # None)
        => /\ Makes(calls', "signIn")
           /\ result' \in {"ok", "RemoteProtocolError"}
           /\ result' = "ok"
                => /\ ret' \in {"authorized", "need-password"}
                   /\ phoneCodeHash' = None
                   /\ SavedNow
           /\ result' # "ok"
                => /\ phoneCodeHash' = phoneCodeHash
                   /\ NothingSaved]_vars

C3_Witness ==
    /\ op = "signInToTelegram"
    /\ result = "RemoteProtocolError"
    /\ phoneCodeHash \in Hashes
    /\ persisted.data.phoneCodeHash = phoneCodeHash

\* C4 as stated: every checkPassword call saves the user, whether the
\* verification succeeds or fails.
C4_SavedOnEveryOutcome ==
    [][op' = "checkPassword" => Makes(calls', "save")]_vars

\* C4 amended: a checkPassword call saves the user when the session's
\* verification returns; when it fails the error propagates and nothing is
\* saved.
C4_SavedWhenVerificationReturns ==
    [][op' = "checkPassword"
        => /\ Makes(calls', "checkPassword")
           /\ result' = "ok" => SavedNow
           /\ result' # "ok" => NothingSaved]_vars

C4_Witness ==
    /\ op = "checkPassword"
    /\ result = "RemoteProtocolError"
    /\ persisted = Undefined

\* C5: from every state, also one with no session and no sign-in ever,
\* logOutFromTelegram succeeds, calls the session's logOut, leaves the
\* session and puppetData absent, stores an entry without a snapshot, and
\* keeps userID.
C5_LogOutAlwaysClears ==
    [][op' = "logOutFromTelegram"
        => /\ result' = "ok"
           /\ Makes(calls', "logOut")
           /\ telegramPuppet' = Undefined
           /\ puppetData' = Undefined
           /\ SavedNow
           /\ persisted'.data.puppet = Undefined
           /\ userID' = userID]_vars

\* A user that never held a session: the getter builds one to log out.
C5_Witness ==
    /\ op = "logOutFromTelegram"
    /\ result = "ok"
    /\ calls = <<Call("fromSubentry", 0), Call("logOut", 0), Call("save", 0)>>
    /\ phoneNumber = None
    /\ persisted.data.puppet = Undefined

\* C6: whenever the user is authenticated, has never started, or has just
\* logged out, phoneNumber and phoneCodeHash are both absent.
C6_HandshakeAbsentOutsideCodeSent ==
    (Authenticated \/ op = "constructor" \/ op = "logOutFromTelegram")
        => phoneNumber = None /\ phoneCodeHash = None

\* The positions of the contacts of a response that the registry fails on.
Failing(users) == {i \in DOMAIN users : users[i].outcome # "ok"}

Min(S) == CHOOSE x \in S : \A y \in S : x <= y

\* C7: syncContacts returns false, keeps the cache (same contacts, same
\* order) and does not save when the remote side answers "not modified";
\* when it answers with contacts that all resolve, it returns true and the
\* cache becomes the local contacts of the returned ones, in their order,
\* with nothing of the old cache kept; it returns true in no other case.
C7_SyncContactsReplacesOrKeeps ==
    [][op' = "syncContacts"
        => LET response == arg'
               users == response.users
           IN  /\ response.kind = "contacts.contactsNotModified"
                    => /\ result' = "ok"
                       /\ ret' = "false"
                       /\ contacts' = contacts
                       /\ NothingSaved
               /\ (response.kind = "contacts.contacts" /\ Failing(users) = {})
                    => /\ result' = "ok"
                       /\ ret' = "true"
                       /\ DOMAIN contacts' = DOMAIN users
                       /\ \A i \in DOMAIN users : contacts'[i].id = users[i].id
                       /\ SavedNow
               /\ ret' = "true"
                    => response.kind = "contacts.contacts" /\ Failing(users) = {}]_vars

\* "Not modified" on a cache of two contacts.
C7_Witness ==
    /\ op = "syncContacts"
    /\ arg.kind = "contacts.contactsNotModified"
    /\ ret = "false"
    /\ Len(contacts) >= 2
    /\ contacts[1].id # contacts[2].id

\* C8: when resolving or updating one of the returned contacts fails,
\* syncContacts fails with that error, the cache is as before the call,
\* nothing is saved, and no contact after the failing one is looked up or
\* updated.
C8_SyncContactsAbortsWhole ==
    [][(op' = "syncContacts" /\ arg'.kind = "contacts.contacts" /\ Failing(arg'.users) # {})
        => LET users == arg'.users
               first == Min(Failing(users))
           IN  /\ result' = "ContactError"
               /\ ret' = None
               /\ contacts' = contacts
               /\ NothingSaved
               /\ CountOf(calls', "getTelegramUser") = first
               /\ CountOf(calls', "updateInfo")
                    = IF users[first].outcome = "lookupError" THEN first - 1 ELSE first]_vars

\* The first of two returned contacts fails, on a cache that is not empty.
C8_Witness ==
    /\ op = "syncContacts"
    /\ result = "ContactError"
    /\ Len(arg.users) >= 2
    /\ arg.users[1].outcome = "updateError"
    /\ arg.users[2].outcome = "ok"
    /\ contacts # <<>>

\* The conversations the claims call skipped, and the rest of a list.
ForbiddenOrDeactivated(dialog) == dialog.kind = "chatForbidden" \/ dialog.deactivated

Remaining(chats) == SelectSeq(chats, LAMBDA dialog : ~ForbiddenOrDeactivated(dialog))

\* The calls of a run that reach the portal registry.
PortalCalls(made) ==
    SelectSeq(made, LAMBDA call :
        call.fn \in {"getPortalByPeer", "updateInfo", "createMatrixRoom"})

\* C9: syncDialogs makes no call (lookup, update, room creation) for a
\* conversation that is forbidden or deactivated, and what it returns is
\* what it returns for the same list without those conversations.
C9_SkippedDialogsLeaveNoTrace ==
    (op = "syncDialogs" /\ arg.response.kind = "messages.dialogs")
        => LET chats == arg.response.chats
               rest == SyncDialogsLoop(Remaining(chats), 1, arg.createRooms, FALSE, <<>>)
           IN  /\ \A i \in DOMAIN chats :
                     ForbiddenOrDeactivated(chats[i])
                        => \A k \in DOMAIN calls : calls[k].arg # chats[i].id
               /\ result = rest.result
               /\ result = "ok" => ret = BoolString(rest.changed)
               /\ PortalCalls(calls) = PortalCalls(rest.calls)

\* A deactivated conversation whose update would have reported a change.
C9_Witness ==
    /\ op = "syncDialogs"
    /\ arg.createRooms
    /\ Len(arg.response.chats) >= 2
    /\ arg.response.chats[1].kind = "chat"
    /\ arg.response.chats[1].deactivated
    /\ arg.response.chats[1].update = "changed"
    /\ ~ForbiddenOrDeactivated(arg.response.chats[2])
    /\ arg.response.chats[2].update = "unchanged"
    /\ result = "ok"
    /\ ret = "false"

\* The same list with every room creation succeeding.
AllRoomsCreated(chats) == [i \in DOMAIN chats |-> [chats[i] EXCEPT !.room = "ok"]]

\* C10: with createRooms set, whichever room creations fail, syncDialogs
\* ends as the run in which none fails ends (without error when no lookup
\* or update fails), makes the same lookups, updates and room-creation
\* attempts, and returns the same changed flag.
C10_RoomFailuresIsolated ==
    (op = "syncDialogs" /\ arg.response.kind = "messages.dialogs" /\ arg.createRooms)
        => LET chats == arg.response.chats
               clean == SyncDialogsLoop(AllRoomsCreated(chats), 1, TRUE, FALSE, <<>>)
               live == Remaining(chats)
           IN  /\ result = clean.result
               /\ result = "ok" => ret = BoolString(clean.changed)
               /\ PortalCalls(calls) = PortalCalls(clean.calls)
               /\ (\A i \in DOMAIN live : live[i].update \in {"changed", "unchanged"})
                    => /\ result = "ok"
                       /\ ret = BoolString(\E i \in DOMAIN live : live[i].update = "changed")
                       /\ \A i \in DOMAIN live :
                            /\ Call("updateInfo", live[i].id) \in {calls[k] : k \in DOMAIN calls}
                            /\ Call("createMatrixRoom", live[i].id)
                                 \in {calls[k] : k \in DOMAIN calls}

\* The first room creation fails; the second conversation is still updated,
\* and its change is reported.
C10_Witness ==
    /\ op = "syncDialogs"
    /\ arg.createRooms
    /\ Len(arg.response.chats) >= 2
    /\ ~ForbiddenOrDeactivated(arg.response.chats[1])
    /\ arg.response.chats[1].update = "unchanged"
    /\ arg.response.chats[1].room = "error"
    /\ ~ForbiddenOrDeactivated(arg.response.chats[2])
    /\ arg.response.chats[2].update = "changed"
    /\ result = "ok"
    /\ ret = "true"
    /\ Call("updateInfo", 2) \in {calls[k] : k \in DOMAIN calls}

\* The user has just been rebuilt from an entry whose id list the task of the
\* contactIDs setter has not assigned yet, and no method has run since.
Rehydrating == op \in {"fromEntry", "timer"} /\ timer.phase # "idle"

\* The digest syncContacts sent with contacts.getContacts.
HashSent(made) ==
    LET k == CHOOSE i \in DOMAIN made : made[i].fn = "contacts.getContacts"
    IN  made[k].arg

\* C11: after fromEntry has assigned the entry's id list, every read of the
\* cache (the digest syncContacts computes, the contactIDs toEntry stores in a
\* save) sees the contacts of that list, never the cache before resolution.
C11_RehydratedCacheReadResolved ==
    [][/\ (Rehydrating /\ op' = "syncContacts")
            => HashSent(calls') = Md5Join(timer.list)
       /\ (Rehydrating /\ op' # "syncContacts" /\ Makes(calls', "save"))
            => persisted'.data.contactIDs = timer.list]_vars

\* The similarity the claims give a contact: the greatest of its name,
\* username and phone scores, an absent field counting as 0.
GreatestScore(contact) ==
    LET scores == {IF f.present THEN f.score ELSE 0 :
                      f \in {contact.name, contact.username, contact.phoneNumber}}
    IN  CHOOSE m \in scores : \A x \in scores : m >= x

\* The cached contacts that reach the threshold of a search.
Reaching(cache, minSimilarity) ==
    {i \in DOMAIN cache : GreatestScore(cache[i]) >= minSimilarity}

Returned(results) == {results[k].contact.id : k \in DOMAIN results}

\* C12: every result of searchContacts is a cached contact whose similarity,
\* the greatest of its three scores, reaches minSimilarity; every contact
\* that reaches it is a candidate (all of them are returned when maxResults
\* leaves room); and the results are in non-increasing order of similarity.
C12_SearchFiltersAndSorts ==
    op = "searchContacts"
        => LET reaching == Reaching(contacts, arg.minSimilarity)
           IN  /\ \A k \in DOMAIN ret :
                     /\ ret[k].contact.id \in DOMAIN contacts
                     /\ ret[k].contact = contacts[ret[k].contact.id]
                     /\ ret[k].similarity = GreatestScore(ret[k].contact)
                     /\ ret[k].similarity >= arg.minSimilarity
               /\ Returned(ret) \subseteq reaching
               /\ Len(ret) < arg.maxResults => Returned(ret) = reaching
               /\ \A k \in DOMAIN ret : \A l \in DOMAIN ret :
                     k < l => ret[k].similarity >= ret[l].similarity

\* The first contact stays below the threshold; the second reaches
\* it exactly, by its username, with a lower name score.
C12_Witness ==
    /\ op = "searchContacts"
    /\ arg.minSimilarity = 60
    /\ arg.maxResults = 2
    /\ Len(contacts) = 2
    /\ GreatestScore(contacts[1]) = 30
    /\ contacts[2].name.present /\ contacts[2].name.score = 30
    /\ contacts[2].username.present /\ contacts[2].username.score = 60
    /\ Len(ret) = 1
    /\ ret[1].contact.id = 2
    /\ ret[1].similarity = 60

\* C13: searchContacts returns at most maxResults results, as many as
\* maxResults and the contacts reaching the threshold allow, each contact
\* once, and no contact left out has a higher similarity than one returned.
C13_SearchTruncatesToBest ==
    op = "searchContacts"
        => LET reaching == Reaching(contacts, arg.minSimilarity)
           IN  /\ Len(ret) <= arg.maxResults
               /\ Len(ret) = IF Cardinality(reaching) < arg.maxResults
                             THEN Cardinality(reaching) ELSE arg.maxResults
               /\ Cardinality(Returned(ret)) = Len(ret)
               /\ \A i \in reaching \ Returned(ret) : \A k \in DOMAIN ret :
                     GreatestScore(contacts[i]) <= ret[k].similarity

\* Two contacts reach the threshold, one result is asked for: the second,
\* whose similarity is higher, is the one returned.
C13_Witness ==
    /\ op = "searchContacts"
    /\ arg.maxResults = 1
    /\ Len(contacts) = 2
    /\ Reaching(contacts, arg.minSimilarity) = {1, 2}
    /\ GreatestScore(contacts[1]) < GreatestScore(contacts[2])
    /\ Len(ret) = 1
    /\ ret[1].contact.id = 2

\* C14: when sendTelegramCode fails because checkPhone answers unregistered
\* or invalid, or because sendCode fails, phoneNumber and phoneCodeHash keep
\* their values and nothing is saved; in the first two cases sendCode is not
\* called.  Only when sendCode succeeds are the number and the returned hash
\* stored and the user saved.
C14_SendCodeStoresOnlyOnSuccess ==
    [][op' = "sendTelegramCode"
        => /\ result' \in {"UnregisteredAccount", "InvalidPhoneNumber"}
                => /\ UNCHANGED <<phoneNumber, phoneCodeHash>>
                   /\ NothingSaved
                   /\ Makes(calls', "checkPhone")
                   /\ ~Makes(calls', "sendCode")
           /\ result' = "RemoteProtocolError"
                => /\ UNCHANGED <<phoneNumber, phoneCodeHash>>
                   /\ NothingSaved
                   /\ Makes(calls', "sendCode")
           /\ result' = "ok"
                => /\ phoneNumber' = arg'.phoneNumber
                   /\ phoneCodeHash' = ret'
                   /\ phoneCodeHash' \in Hashes
                   /\ Makes(calls', "sendCode")
                   /\ SavedNow
           /\ result' # "ok"
                => /\ UNCHANGED <<phoneNumber, phoneCodeHash>>
                   /\ NothingSaved]_vars

\* sendCode fails for another number than the one stored: the stored
\* number and hash stay.
C14_Witness ==
    /\ op = "sendTelegramCode"
    /\ result = "RemoteProtocolError"
    /\ phoneNumber \in Phones
    /\ phoneCodeHash \in Hashes
    /\ arg.phoneNumber # phoneNumber

\* C15: the user holds no session or one.  A session is constructed only
\* when none is held, at most once in a call, from puppetData (from the
\* empty snapshot when puppetData is absent); a session held stays the one
\* held, its identity set by a sign-in at most, until logOutFromTelegram
\* drops it.  (fromEntry builds another user object, with its own session
\* slot filled at most once.)
C15_OneSessionUntilLogOut ==
    [][/\ CountOf(calls', "fromSubentry") <= 1
       /\ (Makes(calls', "fromSubentry") /\ op' # "fromEntry")
            => /\ telegramPuppet = Undefined
               /\ \/ op' = "logOutFromTelegram"
                  \/ telegramPuppet' \in {FromSubentry(puppetData)}
                        \cup {SignInComplete(FromSubentry(puppetData), id) :
                                id \in TelegramIDs}
       /\ (telegramPuppet # Undefined /\ op' \notin {"logOutFromTelegram", "fromEntry"})
            => /\ ~Makes(calls', "fromSubentry")
               /\ telegramPuppet' \in {telegramPuppet}
                        \cup {SignInComplete(telegramPuppet, id) : id \in TelegramIDs}
       /\ op' = "logOutFromTelegram" => telegramPuppet' = Undefined]_vars

\* A sign-in that used the session the code request had constructed.
C15_Witness ==
    /\ op = "signInToTelegram"
    /\ result = "ok"
    /\ telegramPuppet # Undefined
    /\ Makes(calls, "signIn")
    /\ ~Makes(calls, "fromSubentry")

\* C16: searchTelegram returns one Contact for each user of the remote
\* result, in the remote's order, and when it returns the refresh of every
\* returned Contact has completed: none is pending.
C16_SearchTelegramRefreshed ==
    (op = "searchTelegram" /\ result = "ok")
        => /\ ret.users = [i \in DOMAIN arg.response.users |->
                              GetTelegramUser(arg.response.users[i].id)]
           /\ ret.pending = {}

\* C17: once syncContacts has returned true, the cache is the list that
\* call installed until the next syncContacts that returns true: no other
\* step of the user (the resolution task of the contactIDs setter above
\* all) changes it.  Stated for the step that follows the call; fromEntry
\* builds another user object.
C17_SyncedCacheStays ==
    [][(/\ op = "syncContacts" /\ result = "ok" /\ ret = "true"
        /\ op' # "fromEntry"
        /\ ~(op' = "syncContacts" /\ result' = "ok" /\ ret' = "true"))
        => contacts' = contacts]_vars

\* C18: the contact ids of the stored entry change only when syncContacts
\* returns true: every other save (sendTelegramCode, signInToTelegram,
\* checkPassword, logOutFromTelegram), after a rehydration as well, stores
\* the contactIDs the entry already had.
C18_SavesKeepContactIDs ==
    [][(persisted # Undefined /\ Makes(calls', "save") /\ op' # "syncContacts")
        => persisted'.data.contactIDs = persisted.data.contactIDs]_vars

\* The hash of the last code request has been redeemed: a number is stored
\* and no hash is.
Redeemed == phoneNumber # None /\ phoneCodeHash = None

\* C19: a hash is redeemed at most once.  A signInToTelegram whose signIn
\* returned (signed in, or password required) leaves no hash; from then on,
\* restarts included, only a sendTelegramCode that succeeds stores one, and
\* until it does every signInToTelegram fails with CodeNotRequested without
\* calling signIn.
C19_HashRedeemedOnce ==
    [][/\ (op' = "signInToTelegram" /\ result' = "ok") => Redeemed'
       /\ (Redeemed /\ ~Redeemed')
            => op' = "sendTelegramCode" /\ result' = "ok"
       /\ (Redeemed /\ op' = "signInToTelegram")
            => /\ result' = "CodeNotRequested"
               /\ ~Makes(calls', "signIn")
               /\ Redeemed']_vars

\* A second signInToTelegram after the one that needed a password.
C19_Witness ==
    /\ op = "signInToTelegram"
    /\ result = "CodeNotRequested"
    /\ Redeemed
    /\ ~Authenticated
    /\ persisted # Undefined
    /\ persisted.data.phoneCodeHash = None

\* The conversations of a list that are not skipped and whose portal lookup
\* or info update fails.
FailedUpdates(chats) ==
    {i \in DOMAIN chats :
        /\ ~ForbiddenOrDeactivated(chats[i])
        /\ chats[i].update \in {"lookupError", "updateError"}}

\* C20: syncDialogs suppresses room-creation failures only.  When the portal
\* lookup or the info update of a conversation that is not skipped fails,
\* syncDialogs fails with that error, returns no changed value, and makes no
\* lookup, update or room creation for a later conversation (nor a room
\* creation for the failing one); when none fails it ends without error.
\* Every room creation requested follows the completed info update of the
\* same conversation.
C20_OnlyRoomFailuresSuppressed ==
    (op = "syncDialogs" /\ arg.response.kind = "messages.dialogs")
        => LET chats == arg.response.chats
               failing == FailedUpdates(chats)
               portal == {k \in DOMAIN calls :
                            calls[k].fn \in {"getPortalByPeer", "updateInfo",
                                             "createMatrixRoom"}}
           IN  /\ failing # {}
                    => /\ result = "PortalError"
                       /\ ret = None
                       /\ \A k \in portal : calls[k].arg <= Min(failing)
                       /\ Call("getPortalByPeer", Min(failing))
                            \in {calls[k] : k \in portal}
                       /\ Call("createMatrixRoom", Min(failing))
                            \notin {calls[k] : k \in portal}
                       /\ (Call("updateInfo", Min(failing)) \in {calls[k] : k \in portal})
                            <=> chats[Min(failing)].update = "updateError"
               /\ failing = {} => result = "ok"
               /\ \A k \in portal :
                    calls[k].fn = "createMatrixRoom"
                        => /\ chats[calls[k].arg].update \in {"changed", "unchanged"}
                           /\ \E j \in portal :
                                j < k /\ calls[j] = Call("updateInfo", calls[k].arg)

\* The update of the first of two conversations fails: the second, which
\* would have reported a change, is not touched.
C20_Witness ==
    /\ op = "syncDialogs"
    /\ arg.createRooms
    /\ Len(arg.response.chats) >= 2
    /\ ~ForbiddenOrDeactivated(arg.response.chats[1])
    /\ arg.response.chats[1].update = "updateError"
    /\ ~ForbiddenOrDeactivated(arg.response.chats[2])
    /\ arg.response.chats[2].update = "changed"
    /\ result = "PortalError"
    /\ Call("updateInfo", 1) \in {calls[k] : k \in DOMAIN calls}
    /\ Call("getPortalByPeer", 2) \notin {calls[k] : k \in DOMAIN calls}
====
